---- MODULE Spec2Model ----
(***************************************************************************)
(* A model of nmtpytorch/layers/xu_decoder.py: the XuDecoder               *)
(* (show-attend-and-tell decoder): its constructor, the state codec        *)
(* (_lstm_pack_states / _lstm_unpack_states), the initializers, the step   *)
(* function f_next and the teacher-forced driver forward.                  *)
(*                                                                         *)
(* Python values are modelled with their dynamic type: a tensor is a       *)
(* record [rank, v] (v the nested sequence of its entries), a tuple is a   *)
(* record [items], None is the record [none].  Numbers are integers; the   *)
(* learned layers (FF, Attention, the recurrent cells) are fixed integer   *)
(* functions of their inputs, reduced modulo Q.  A raised exception is     *)
(* the record [raised |-> <where>].                                        *)
(***************************************************************************)
EXTENDS Integers, Sequences, FiniteSets, TLC

\* ---------------------------------------------------------------- bounds
\* Longest target sequence (T) given to forward.
MaxT == 3
\* Largest number of direct f_next calls of one decoder (beam-search use).
MaxSteps == 2
\* Arithmetic of the learned layers is modulo Q.
Q == 5
\* Constructor arguments of the decoders examined: the widths, and the
\* vocabulary size (self.n_vocab).
hidden_size == 2
input_size == 2
ctx_size == 2
n_vocab == 3
\* A gate value g stands for g / GateOne: GateOne is the gate 1.
GateOne == 4

\* Python's None.
None == [none |-> TRUE]
IsNone(x) == "none" \in DOMAIN x
\* An absent ctx_mask.
NoMask == << >>

\* ---------------------------------------------------------------- tensors
RECURSIVE SumSeq(_)
SumSeq(s) ==
    IF s = << >> THEN 0 ELSE Head(s) + SumSeq(Tail(s))

MaxOf(s) ==
    CHOOSE m \in {s[i] : i \in DOMAIN s} : \A i \in DOMAIN s : s[i] <= m

Raised(where) == [raised |-> where]
IsRaised(x) == "raised" \in DOMAIN x
IsTensor(x) == "rank" \in DOMAIN x
IsTuple(x) == "items" \in DOMAIN x

\* The entries of a tensor are kept as explicit (evaluated) sequences.
Force1(s) == SubSeq(s, 1, Len(s))
Force2(s) == Force1([i \in 1..Len(s) |-> Force1(s[i])])
Force3(s) == Force1([i \in 1..Len(s) |-> Force2(s[i])])

Tensor(rank, v) ==
    [rank |-> rank,
     v |-> IF rank = 1 THEN Force1(v) ELSE IF rank = 2 THEN Force2(v) ELSE Force3(v)]

\* size(0) and size(-1) of a tensor of rank 1, 2 or 3 (no dimension is 0 here).
Size0(t) == Len(t.v)
SizeLast(t) ==
    IF t.rank = 1 THEN Len(t.v)
    ELSE IF t.rank = 2 THEN Len(t.v[1])
    ELSE Len(t.v[1][1])

\* Python iteration (a, *b = x): a tuple yields its items, a tensor its
\* slices along dimension 0.
Iterate(x) ==
    IF IsTuple(x) THEN x.items
    ELSE [i \in 1..Len(x.v) |-> Tensor(x.rank - 1, x.v[i])]

\* tensor.unsqueeze(0)
Unsqueeze0(t) == Tensor(t.rank + 1, <<t.v>>)

\* torch.zeros(b, w)
Zeros(b, w) == Tensor(2, [i \in 1..b |-> [j \in 1..w |-> 0]])

\* ctx.mean(0) of an S x B x C tensor: a B x C tensor (integer mean).
Mean0(ctx) ==
    LET S == Len(ctx.v)
        B == Len(ctx.v[1])
        C == Len(ctx.v[1][1])
    IN  Tensor(2, [b \in 1..B |-> [c \in 1..C |->
            SumSeq([s \in 1..S |-> ctx.v[s][b][c]]) \div S]])

\* torch.split(h, size, dim=-1) of a rank-2 tensor: the tuple of its chunks
\* of `size` columns (the last one shorter when the width is no multiple).
SplitLast(h, size) ==
    LET W == SizeLast(h)
        n == (W + size - 1) \div size
        lo(k) == (k - 1) * size + 1
        hi(k) == IF k * size < W THEN k * size ELSE W
    IN  [items |-> [k \in 1..n |->
            Tensor(2, [b \in 1..Size0(h) |-> SubSeq(h.v[b], lo(k), hi(k))])]]

\* torch.cat(seq, dim=-1) of rank-2 tensors: raises unless every item is a
\* rank-2 tensor with the same number of rows.
RECURSIVE CatRows(_, _)
CatRows(items, b) ==
    IF items = << >> THEN << >> ELSE Head(items).v[b] \o CatRows(Tail(items), b)

CatLast(items) ==
    IF \/ items = << >>
       \/ \E i \in DOMAIN items : ~IsTensor(items[i]) \/ items[i].rank # 2
    THEN Raised("cat")
    ELSE IF \E i \in DOMAIN items : Size0(items[i]) # Size0(items[1])
    THEN Raised("cat")
    ELSE Tensor(2, [b \in 1..Size0(items[1]) |-> CatRows(items, b)])

\* Broadcasting of the batch dimension of two operands with b1 and b2 rows:
\* the common size, or 0 when they cannot be broadcast.
BroadcastBatch(b1, b2) ==
    IF b1 = b2 THEN b1
    ELSE IF b1 = 1 THEN b2
    ELSE IF b2 = 1 THEN b1
    ELSE 0

\* Row b of a rank-2 tensor under broadcasting (a single row serves all b).
BRow(t, b) == IF Size0(t) = 1 THEN t.v[1] ELSE t.v[b]

\* ------------------------------------------------------------------ state
VARIABLES
    pc,               \* "new" | "ctor_failed" | "idle" | "forward"
    rnn_type,         \* self.rnn_type (normalised), a sequence of characters
    n_states,         \* self.n_states
    dec_init,         \* self.dec_init
    selector,         \* self.selector
    prev2out,         \* self.prev2out
    ctx2out,          \* self.ctx2out
    tied_emb,         \* self.tied_emb
    dropout,          \* self.dropout (tenths)
    emb_weight,       \* the object that is self.emb.weight
    out2prob_weight,  \* the object that is self.out2prob.weight
    training,         \* nn.Module.training
    api,              \* the caller's direct f_init / f_next session
    last,             \* what the most recent f_init / f_next call did
    fwd               \* the frame of the forward call (running or returned)

attrs == <<rnn_type, n_states, dec_init, selector, prev2out, ctx2out,
           tied_emb, dropout, emb_weight, out2prob_weight>>
vars == <<pc, attrs, training, api, last, fwd>>

GRU == <<"G", "R", "U">>
LSTM == <<"L", "S", "T", "M">>

\* ------------------------------------------------------- learned layers
\* The affine part of a layer: output feature j of input row `row`.
Lin(row, j, seed) == ((SumSeq(row) * seed + j) % Q) - (Q \div 2)

Tanh(x) == IF x > 1 THEN 1 ELSE IF x < -1 THEN -1 ELSE x

\* A gate strictly between 0 and GateOne (the sigmoid's range is (0, 1)).
Sigmoid(x) ==
    IF x < 0 THEN 1 ELSE IF x = 0 THEN GateOne \div 2 ELSE GateOne - 1

Activ(name, x) ==
    IF name = "tanh" THEN Tanh(x)
    ELSE IF name = "sigmoid" THEN Sigmoid(x)
    ELSE x

\* FF(in_w, out_w, activ)(x) for a tensor x of rank 1 or 2: raises when the
\* feature width of x is not in_w.
FF(seed, in_w, out_w, activ, x) ==
    IF ~IsTensor(x) \/ SizeLast(x) # in_w THEN Raised("FF")
    ELSE IF x.rank = 1
    THEN Tensor(1, [j \in 1..out_w |-> Activ(activ, Lin(x.v, j, seed))])
    ELSE Tensor(2, [b \in 1..Size0(x) |->
            [j \in 1..out_w |-> Activ(activ, Lin(x.v[b], j, seed))]])

\* The values of a weight object: one row per token, input_size columns.
\* The embedding table's row of token 0 (padding_idx) is zero.
WeightTable(w) ==
    IF w = "emb.weight"
    THEN [k \in 1..n_vocab |-> [i \in 1..input_size |->
            IF k = 1 THEN 0 ELSE ((k - 1) * i + k) % Q]]
    ELSE [k \in 1..n_vocab |-> [i \in 1..input_size |-> ((k + 2 * i) % Q) - 1]]

\* self.emb(tokens) for one timestep: a B x input_size tensor.
Embedding(tokens) ==
    Tensor(2, [b \in 1..Len(tokens) |-> WeightTable(emb_weight)[tokens[b] + 1]])

\* self.out2prob(x): x times the transpose of self.out2prob.weight.
Out2Prob(x) ==
    IF ~IsTensor(x) \/ SizeLast(x) # input_size THEN Raised("out2prob")
    ELSE Tensor(2, [b \in 1..Size0(x) |-> [k \in 1..n_vocab |->
            SumSeq([i \in 1..input_size |->
                WeightTable(out2prob_weight)[k][i] * x.v[b][i]])]])

\* F.log_softmax(s, dim=-1): s - logsumexp(s), with logsumexp(s) taken as
\* max(s) + (n - 1); every entry is <= 0, and 0 when n = 1.
LogSoftmax(s) ==
    Tensor(2, [b \in 1..Size0(s) |-> [k \in 1..SizeLast(s) |->
        s.v[b][k] - MaxOf(s.v[b]) - (SizeLast(s) - 1)]])

\* Attention(ctx_size, hidden_size)(query, ctx, ctx_mask) -> (alpha, z_t).
\* The query is 1 x H or 1 x B x H; its batch is broadcast against that of
\* the annotations.  alpha[s][b] is 0 at a masked position and a positive
\* weight elsewhere; z_t[b] is the weighted sum of the annotations.
AttQueryRows(query) ==
    IF query.rank = 2 THEN query ELSE Tensor(2, query.v[1])

Attention(query, ctx, ctx_mask) ==
    IF SizeLast(ctx) # ctx_size \/ SizeLast(query) # hidden_size
    THEN Raised("att")
    ELSE
      LET q == AttQueryRows(query)
          S == Len(ctx.v)
          Bc == Len(ctx.v[1])
          B == BroadcastBatch(Size0(q), Bc)
          cb(b) == IF Bc = 1 THEN 1 ELSE b
          alpha == [s \in 1..S |-> [b \in 1..B |->
                      IF ctx_mask # NoMask /\ ctx_mask[s][cb(b)] = 0 THEN 0
                      ELSE 1 + ((SumSeq(ctx.v[s][cb(b)]) + SumSeq(BRow(q, b))) % 2)]]
      IN  IF B = 0 THEN Raised("att")
          ELSE [alpha |-> Force2(alpha),
                z_t |-> Tensor(2, [b \in 1..B |-> [c \in 1..ctx_size |->
                    SumSeq([s \in 1..S |-> alpha[s][b] * ctx.v[s][cb(b)][c]]) % Q]])]

\* z_t * gate with broadcasting: gate is (1,) or B x 1, in units of 1/GateOne.
GateMul(z, gate) ==
    LET g == IF gate.rank = 1 THEN Tensor(2, <<gate.v>>) ELSE gate
        B == BroadcastBatch(Size0(z), Size0(g))
    IN  IF B = 0 THEN Raised("mul")
        ELSE Tensor(2, [b \in 1..B |-> [c \in 1..SizeLast(z) |->
                (BRow(z, b)[c] * BRow(g, b)[1]) \div GateOne]])

\* a + b of two rank-2 tensors (logit += y requires the shape of a).
AddInPlace(a, b) ==
    IF IsRaised(a) THEN a
    ELSE IF IsRaised(b) THEN b
    ELSE IF SizeLast(a) # SizeLast(b) \/ (Size0(a) # Size0(b) /\ Size0(b) # 1)
    THEN Raised("add")
    ELSE Tensor(2, [r \in 1..Size0(a) |-> [j \in 1..SizeLast(a) |->
            a.v[r][j] + BRow(b, r)[j]]])

\* nn.GRUCell(input_size + ctx_size, hidden_size)(x, h).  `strict` is whether
\* the back end checks the batch of h against that of x before computing
\* (later releases do; earlier ones broadcast).
GRUCell(x, h, strict) ==
    IF \/ ~IsTensor(h) \/ ~IsTensor(x)
    THEN Raised("dec0")
    ELSE IF \/ h.rank # 2 \/ x.rank # 2
            \/ SizeLast(x) # input_size + ctx_size
            \/ SizeLast(h) # hidden_size
    THEN Raised("dec0")
    ELSE IF Size0(x) # Size0(h) /\ (strict \/ BroadcastBatch(Size0(x), Size0(h)) = 0)
    THEN Raised("dec0")
    ELSE Tensor(2, [b \in 1..BroadcastBatch(Size0(x), Size0(h)) |->
            [i \in 1..hidden_size |->
                (BRow(h, b)[i] + SumSeq(BRow(x, b)) + i) % Q]])

\* nn.LSTMCell(input_size + ctx_size, hidden_size)(x, (hx, cx)): the state
\* is unpacked by iteration into exactly two B x hidden_size tensors.
LSTMCell(x, state, strict) ==
    LET parts == Iterate(state)
    IN  IF Len(parts) # 2 THEN Raised("dec0")
        ELSE LET hx == parts[1]
                 cx == parts[2]
             IN  IF \/ hx.rank # 2 \/ cx.rank # 2 \/ x.rank # 2
                 THEN Raised("dec0")
                 ELSE IF \/ SizeLast(x) # input_size + ctx_size
                         \/ SizeLast(hx) # hidden_size
                         \/ SizeLast(cx) # hidden_size
                         \/ Size0(hx) # Size0(cx)
                 THEN Raised("dec0")
                 ELSE IF Size0(x) # Size0(hx)
                         /\ (strict \/ BroadcastBatch(Size0(x), Size0(hx)) = 0)
                 THEN Raised("dec0")
                 ELSE LET B == BroadcastBatch(Size0(x), Size0(hx))
                      IN [items |-> <<
                           Tensor(2, [b \in 1..B |-> [i \in 1..hidden_size |->
                             (BRow(hx, b)[i] + BRow(cx, b)[i]
                                + SumSeq(BRow(x, b)) + i) % Q]]),
                           Tensor(2, [b \in 1..B |-> [i \in 1..hidden_size |->
                             (BRow(cx, b)[i] + SumSeq(BRow(x, b))) % Q]]) >>]

\* self.dec0: the cell class is nn.<rnn_type>Cell.
Dec0(x, state, strict) ==
    IF rnn_type = GRU THEN GRUCell(x, state, strict)
    ELSE LSTMCell(x, state, strict)

\* utils.nn.get_rnn_hidden_state: the primary state of a cell's output.
get_rnn_hidden_state(h) ==
    IF IsTuple(h) THEN h.items[1] ELSE h

\* self.do(x) in training mode: the features in `mask` are zeroed.  In
\* evaluation mode nn.Dropout is the identity (mask = {}).
Dropout(x, mask) ==
    Tensor(2, [b \in 1..Size0(x) |-> [j \in 1..SizeLast(x) |->
        IF j \in mask THEN 0 ELSE x.v[b][j]]])

\* F.tanh(t) of a rank-2 tensor
TanhT(t) ==
    Tensor(2, [b \in 1..Size0(t) |-> [j \in 1..SizeLast(t) |-> Tanh(t.v[b][j])]])

\* The FF layers the constructor creates (lines 82-106).
ff_dec_init(x) == FF(2, ctx_size, hidden_size * n_states, "tanh", x)
hid2out(x) == FF(3, hidden_size, input_size, "tanh", x)
ff_selector(x) == FF(1, hidden_size, 1, "sigmoid", x)
ff_out_ctx(x) == FF(4, ctx_size, input_size, "linear", x)

\* --------------------------------------------------------- context bundles
\* Context bundles <<ctx, ctx_mask>>, by name: ctx is S x B x C.
Annot(S, B, C) ==
    Tensor(3, [s \in 1..S |-> [b \in 1..B |-> [c \in 1..C |-> (s + 2 * b + c) % Q]]])

Bundle(name) ==
    IF name = "zero1"      \* one zero-valued position, batch 1, all valid
    THEN <<Tensor(3, <<<<[c \in 1..ctx_size |-> 0]>>>>), <<<<1>>>>>>
    ELSE IF name = "seq2"  \* two positions, batch 2, one padded position
    THEN <<Annot(2, 2, ctx_size), <<<<1, 1>>, <<1, 0>>>>>>
    ELSE                   \* "wide": feature width ctx_size + 1, no mask
         <<Annot(1, 1, ctx_size + 1), NoMask>>

BundleNames == {"zero1", "seq2", "wide"}

BatchOf(name) == Len(Bundle(name)[1].v[1])

\* ------------------------------------------------------------ state codec
\* A faulty packing: the pieces concatenated in the reverse order.
_lstm_pack_states_reversed(h) ==
    LET it == Iterate(h)
    IN  CatLast([i \in 1..Len(it) |-> it[Len(it) + 1 - i]])

_lstm_pack_states(h) == CatLast(Iterate(h))

_lstm_unpack_states(h) == SplitLast(h, hidden_size)

_rnn_unpack_states(h) ==
    IF rnn_type = GRU THEN h ELSE _lstm_unpack_states(h)

_rnn_pack_states(h) ==
    IF rnn_type = GRU THEN h ELSE _lstm_pack_states(h)

\* ------------------------------------------------------------ initializer
\* A context bundle ctx_dict[self.ctx_name] is the pair <<ctx, ctx_mask>>.
_rnn_init_zero(ctx, ctx_mask) ==
    Zeros(Len(ctx.v[1]), hidden_size * n_states)

_rnn_init_mean_ctx(ctx, ctx_mask, dmask) ==
    IF dropout > 0 THEN ff_dec_init(Dropout(Mean0(ctx), dmask))
    ELSE ff_dec_init(Mean0(ctx))

f_init(bundle, dmask) ==
    IF dec_init = "zero" THEN _rnn_init_zero(bundle[1], bundle[2])
    ELSE _rnn_init_mean_ctx(bundle[1], bundle[2], dmask)

\* ------------------------------------------------------------------ step
\* The gate of line 143; `forced` replaces it by the gate 1 for every
\* batch element (the reference a gated step is compared with).
SelectorGate(htm1, forced) ==
    IF forced
    THEN (IF htm1.rank = 1 THEN Tensor(1, <<GateOne>>)
          ELSE Tensor(2, [b \in 1..Size0(htm1) |-> <<GateOne>>]))
    ELSE ff_selector(htm1)

\* A faulty gating: the gate applied whatever the selector option.
GatedCtx_always(sel, forced, z_t, htm1) ==
    GateMul(z_t, SelectorGate(htm1, forced))

\* Lines 142-143: z_t = z_t * self.ff_selector(htm1) when the selector is on.
GatedCtx(sel, forced, z_t, htm1) ==
    IF sel THEN GateMul(z_t, SelectorGate(htm1, forced)) ELSE z_t

\* Line 145: the state handed to the recurrent cell is the handle h itself.
CellState(h, unpacked) == h

\* Line 158: the context the ctx2out shortcut projects is z_t as reassigned
\* by line 143.
ShortcutCtx(z_att, z_gated) == z_gated

\* Lines 149-152: the bottleneck, behind dropout when dropout > 0.
HidProj(ht, dmask) ==
    IF dropout > 0 THEN hid2out(Dropout(ht, dmask)) ELSE hid2out(ht)

\* A faulty logit: y added whatever the prev2out option.
Logit_prev_always(hid, y, z) ==
    LET l1 == AddInPlace(hid, y)
    IN  IF ctx2out THEN AddInPlace(l1, ff_out_ctx(z)) ELSE l1

\* Lines 154-158: the shortcut additions into the logit.
Logit(hid, y, z) ==
    LET l1 == IF prev2out THEN AddInPlace(hid, y) ELSE hid
    IN  IF ctx2out THEN AddInPlace(l1, ff_out_ctx(z)) ELSE l1

\* The local variables of one f_next call, as a record that the stages
\* below extend in the order of the code; ok = FALSE and raised = <where>
\* once a stage has raised, and the later stages are then skipped.
StepLocals(sel, forced, name, y, h, dmask, strict) ==
    [ok |-> TRUE, raised |-> "no", sel |-> sel, forced |-> forced,
     bundle |-> name, y |-> y, h_in |-> h, dmask |-> dmask, strict |-> strict]

Fail(e, where) == [e EXCEPT !.ok = FALSE, !.raised = where]

\* Line 137: htm1, *ctm1 = self._rnn_unpack_states(h)
WithUnpacked(e, u) ==
    e @@ [unpacked |-> u, htm1 |-> Head(Iterate(u))]

Unpacked(e) == WithUnpacked(e, _rnn_unpack_states(e.h_in))

\* Lines 139-140: self.img_alpha_t, z_t = self.att(htm1.unsqueeze(0), *ctx)
WithAttention(e, a) ==
    IF IsRaised(a) THEN Fail(e, a.raised)
    ELSE e @@ [img_alpha_t |-> a.alpha, z_att |-> a.z_t]

Attended(e) ==
    WithAttention(e, Attention(Unsqueeze0(e.htm1),
                               Bundle(e.bundle)[1], Bundle(e.bundle)[2]))

\* Lines 142-143
WithGated(e, z) ==
    IF IsRaised(z) THEN Fail(e, z.raised) ELSE e @@ [z_cell |-> z]

Gated(e) ==
    IF ~e.ok THEN e
    ELSE WithGated(e, GatedCtx(e.sel, e.forced, e.z_att, e.htm1))

\* Line 145: torch.cat([y, z_t], dim=1)
WithCellInput(e, x) ==
    IF IsRaised(x) THEN Fail(e, x.raised) ELSE e @@ [x |-> x]

CellInput(e) ==
    IF ~e.ok THEN e ELSE WithCellInput(e, CatLast(<<e.y, e.z_cell>>))

\* Lines 145-146: ht_ct = self.dec0(..., h); ht = get_rnn_hidden_state(ht_ct)
WithCellOutput(e, ht_ct) ==
    IF IsRaised(ht_ct) THEN Fail(e, ht_ct.raised)
    ELSE e @@ [ht_ct |-> ht_ct, ht |-> get_rnn_hidden_state(ht_ct)]

WithCellState(e, cs) ==
    WithCellOutput(e @@ [cell_state |-> cs], Dec0(e.x, cs, e.strict))

CellOutput(e) ==
    IF ~e.ok THEN e ELSE WithCellState(e, CellState(e.h_in, e.unpacked))

\* Lines 149-152
WithHid(e, hid) ==
    IF IsRaised(hid) THEN Fail(e, hid.raised) ELSE e @@ [hid |-> hid]

Bottleneck(e) ==
    IF ~e.ok THEN e ELSE WithHid(e, HidProj(e.ht, e.dmask))

\* Lines 154-158
WithLogit(e, logit) ==
    IF IsRaised(logit) THEN Fail(e, logit.raised) ELSE e @@ [logit |-> logit]

WithShortcutCtx(e, z) ==
    WithLogit(e @@ [z_out |-> z], Logit(e.hid, e.y, z))

Logits(e) ==
    IF ~e.ok THEN e ELSE WithShortcutCtx(e, ShortcutCtx(e.z_att, e.z_cell))

\* Lines 162-165: the log-probabilities and the repacked state.
WithPacked(e, h) ==
    IF IsRaised(h) THEN Fail(e, h.raised)
    ELSE e @@ [h |-> h, log_p |-> LogSoftmax(Out2Prob(TanhT(e.logit)))]

Output(e) ==
    IF ~e.ok THEN e ELSE WithPacked(e, _rnn_pack_states(e.ht_ct))

\* f_next with the selector option `sel` (self.selector in the decoder) and
\* the gate `forced` to 1 or not.
f_next_sel(sel, forced, name, y, h, dmask, strict) ==
    Output(Logits(Bottleneck(CellOutput(CellInput(Gated(Attended(Unpacked(
        StepLocals(sel, forced, name, y, h, dmask, strict)))))))))

f_next(name, y, h, dmask, strict) ==
    f_next_sel(selector, FALSE, name, y, h, dmask, strict)

\* ----------------------------------------------------------------- inputs
\* Token 0 is the padding sentinel, token 1 is <sos>.
Tokens == 0..(n_vocab - 1)

\* Target sequences of one batch element: <sos> first.
TargetSeqs ==
    UNION {{<<1>> \o s : s \in [1..n -> Tokens]} : n \in 0..(MaxT - 1)}

\* The T x B target batch built on s: element 1 is s, element b > 1 is s
\* with its last b - 1 tokens replaced by padding.
TargetBatch(s, B) ==
    Force2([t \in 1..Len(s) |-> [b \in 1..B |->
        IF b > 1 /\ t > 1 /\ t > Len(s) - (b - 1) THEN 0 ELSE s[t]]])

\* Input tokens of a direct f_next call with a batch of B.
StepTokens(B) == [b \in 1..B |-> 1 + (b % (n_vocab - 1))]

\* The dropout masks nn.Dropout may draw: none outside training mode.
DropMasks ==
    IF training /\ dropout > 0 THEN {{}, {1}} ELSE {{}}

\* ------------------------------------------------------------ constructor
UpperChar(c) ==
    CASE c = "g" -> "G" [] c = "r" -> "R" [] c = "u" -> "U"
      [] c = "l" -> "L" [] c = "s" -> "S" [] c = "t" -> "T"
      [] c = "m" -> "M" [] c = "n" -> "N"
      [] OTHER -> c

\* str.upper()
Upper(str) == [i \in 1..Len(str) |-> UpperChar(str[i])]

RNN == <<"R", "N", "N">>

RnnTypeArgs ==
    {<<"g", "r", "u">>, GRU, <<"L", "s", "t", "m">>, LSTM,
     <<"r", "n", "n">>, <<"g", "r", "u", "2">>}

DecInitArgs == {"zero", "mean_ctx", "Zero", "mean"}

\* The option settings <<selector, prev2out, ctx2out, tied_emb, dropout>>
\* of the decoders examined: every pair of options occurs in every
\* combination (the first is "all optional paths disabled", the second the
\* constructor's defaults).
Options ==
    {<<FALSE, FALSE, FALSE, FALSE, 0>>,
     <<FALSE, TRUE,  TRUE,  FALSE, 0>>,
     <<TRUE,  TRUE,  TRUE,  TRUE,  3>>,
     <<TRUE,  FALSE, TRUE,  FALSE, 0>>,
     <<TRUE,  TRUE,  FALSE, FALSE, 3>>,
     <<FALSE, TRUE,  FALSE, TRUE,  0>>,
     <<FALSE, FALSE, TRUE,  TRUE,  3>>,
     <<TRUE,  FALSE, FALSE, TRUE,  0>>,
     <<FALSE, TRUE,  TRUE,  FALSE, 3>>,
     <<FALSE, FALSE, FALSE, FALSE, 3>>}

\* A faulty constructor: the two assertions left out.
SafetyChecks_absent(rt, di) == TRUE

\* Lines 25-28: the two assertions.
SafetyChecks(rt, di) ==
    /\ rt \in {GRU, LSTM}
    /\ di \in {"zero", "mean_ctx"}

\* Line 30: getattr(nn, '<rnn_type>Cell') finds a class.
CellClassExists(rt) == rt \in {GRU, LSTM, RNN}

\* Line 43: getattr(self, '_rnn_init_<dec_init>') finds a method.
InitFuncExists(di) == di \in {"zero", "mean_ctx"}

\* A faulty tying: out2prob keeps a weight of its own.
TiedWeight_untied(tied) == "out2prob.weight"

\* Lines 108-110: the weight object of out2prob after construction.
TiedWeight(tied) ==
    IF tied THEN "emb.weight" ELSE "out2prob.weight"

NoFrame == [status |-> "none"]
NoSession == [h |-> None, steps |-> 0]

\* Each decoder is followed through one use: one forward call, or one
\* session of direct calls (f_init, then f_next up to MaxSteps times).
Fresh == api = NoSession /\ fwd = NoFrame

Init ==
    /\ pc = "new"
    /\ rnn_type = None /\ n_states = None /\ dec_init = None
    /\ selector = None /\ prev2out = None /\ ctx2out = None
    /\ tied_emb = None /\ dropout = None
    /\ emb_weight = None /\ out2prob_weight = None
    /\ training = None
    /\ api = NoSession
    /\ last = [call |-> "none"]
    /\ fwd = NoFrame

\* XuDecoder.__init__
Construct(rt_arg, di_arg, tied, sel, p2o, c2o, drop) ==
    /\ pc = "new"
    /\ LET rt == Upper(rt_arg)
           built == /\ SafetyChecks(rt, di_arg)
                    /\ CellClassExists(rt)
                    /\ InitFuncExists(di_arg)
       IN  /\ last' = [call |-> "__init__", rnn_type_arg |-> rt_arg,
                       dec_init_arg |-> di_arg, tied_arg |-> tied, ok |-> built]
           /\ IF built
              THEN /\ pc' = "idle"
                   /\ rnn_type' = rt
                   /\ n_states' = (IF rt = GRU THEN 1 ELSE 2)
                   /\ dec_init' = di_arg
                   /\ selector' = sel /\ prev2out' = p2o /\ ctx2out' = c2o
                   /\ tied_emb' = tied /\ dropout' = drop
                   /\ emb_weight' = "emb.weight"
                   /\ out2prob_weight' = TiedWeight(tied)
                   /\ training' = TRUE
              ELSE /\ pc' = "ctor_failed"
                   /\ UNCHANGED <<attrs, training>>
    /\ UNCHANGED <<api, fwd>>

\* nn.Module.train() / eval()
SetTraining(mode) ==
    /\ pc = "idle"
    /\ Fresh
    /\ training # mode
    /\ training' = mode
    /\ UNCHANGED <<pc, attrs, api, last, fwd>>

\* ---------------------------------------------------- direct f_init / f_next
InitCall(name, r) ==
    [call |-> "f_init", bundle |-> name, ok |-> ~IsRaised(r), out |-> r]

FInitDone(name, r) ==
    /\ last' = InitCall(name, r)
    /\ api' = [h |-> IF IsRaised(r) THEN None ELSE r, steps |-> 0]

CallFInit(name, dmask) ==
    /\ pc = "idle"
    /\ Fresh
    /\ FInitDone(name, f_init(Bundle(name), dmask))
    /\ UNCHANGED <<pc, attrs, training, fwd>>

StepCall(name, r) == [call |-> "f_next", bundle |-> name, res |-> r]

FNextDone(name, r) ==
    /\ last' = StepCall(name, r)
    /\ api' = [h |-> IF r.ok THEN r.h ELSE api.h, steps |-> api.steps + 1]

CallFNext(name, dmask, strict) ==
    /\ pc = "idle"
    /\ ~IsNone(api.h)
    /\ api.steps < MaxSteps
    /\ FNextDone(name, f_next(name, Embedding(StepTokens(BatchOf(name))),
                              api.h, dmask, strict))
    /\ UNCHANGED <<pc, attrs, training, fwd>>

\* ---------------------------------------------------------------- forward
\* Line 112: ignore_index=0.
IgnoreIndex == 0

\* A faulty loss: padding targets counted like any other token.
nll_loss_unmasked(log_p, target) ==
    SumSeq([b \in 1..Len(target) |-> 0 - log_p.v[b][target[b] + 1]])

\* self.nll_loss = nn.NLLLoss(size_average=False, ignore_index=0): the summed
\* negative log-likelihood of the targets that are not the padding index.
nll_loss(log_p, target) ==
    SumSeq([b \in 1..Len(target) |->
        IF target[b] = IgnoreIndex THEN 0 ELSE 0 - log_p.v[b][target[b] + 1]])

\* Lines 179-180: logps is None in training mode, else zeros(T - 1, B, V).
AllocLogps(T, B) ==
    IF training THEN None
    ELSE Tensor(3, [t \in 1..(T - 1) |-> [b \in 1..B |-> [k \in 1..n_vocab |-> 0]]])

\* Line 189: the timesteps of the loop, range(T - 1).
LoopSteps(T) == T - 1

\* Line 190: the embedding fed at timestep t (0-based).
StepInput(y, t) == Embedding(y[t + 1])

\* Line 190: the handle carried to the next timestep.
NextHandle(h_old, h_new) == h_new

\* A faulty write: every step's distribution stored in row 0.
StoreLogps_row0(logps, t, log_p) ==
    IF ~training THEN Tensor(3, [logps.v EXCEPT ![1] = log_p.v]) ELSE logps

\* Lines 191-192: logps[t] = log_p.data outside training mode.
StoreLogps(logps, t, log_p) ==
    IF ~training THEN Tensor(3, [logps.v EXCEPT ![t + 1] = log_p.v]) ELSE logps

\* Line 193: the target of timestep t.
StepTarget(y, t) == y[t + 2]

\* Lines 178-186: forward up to the loop.
NewFrame(name, y, h0) ==
    [status |-> IF IsRaised(h0) THEN "raised" ELSE "running",
     bundle |-> name, y |-> y, t |-> 0, h |-> h0, loss |-> 0,
     logps |-> AllocLogps(Len(y), BatchOf(name)),
     writes |-> Force1([t \in 1..(Len(y) - 1) |-> 0]),
     calls |-> <<InitCall(name, h0)>>]

ForwardBegun(name, y, h0) ==
    /\ last' = InitCall(name, h0)
    /\ fwd' = NewFrame(name, y, h0)
    /\ pc' = IF IsRaised(h0) THEN "idle" ELSE "forward"

ForwardBegin(name, s, dmask) ==
    /\ pc = "idle"
    /\ Fresh
    /\ ForwardBegun(name, TargetBatch(s, BatchOf(name)), f_init(Bundle(name), dmask))
    /\ UNCHANGED <<attrs, training, api>>

\* Lines 189-193: one iteration of the loop, given what f_next did.
LogEntry(r) ==
    [call |-> "f_next", t |-> fwd.t, y |-> r.y, h_in |-> r.h_in, ok |-> r.ok,
     h_out |-> IF r.ok THEN r.h ELSE None,
     log_p |-> IF r.ok THEN r.log_p ELSE None]

ForwardStepped(r) ==
    /\ last' = StepCall(fwd.bundle, r)
    /\ IF r.ok
       THEN /\ fwd' = [fwd EXCEPT
                 !.t = @ + 1,
                 !.h = NextHandle(fwd.h, r.h),
                 !.loss = @ + nll_loss(r.log_p, StepTarget(fwd.y, fwd.t)),
                 !.logps = StoreLogps(@, fwd.t, r.log_p),
                 !.writes = IF training THEN @
                            ELSE [@ EXCEPT ![fwd.t + 1] = @ + 1],
                 !.calls = Append(@, LogEntry(r))]
            /\ pc' = "forward"
       ELSE /\ fwd' = [fwd EXCEPT !.status = "raised",
                                  !.calls = Append(@, LogEntry(r))]
            /\ pc' = "idle"

ForwardStep(dmask, strict) ==
    /\ pc = "forward"
    /\ fwd.t < LoopSteps(Len(fwd.y))
    /\ ForwardStepped(f_next(fwd.bundle, StepInput(fwd.y, fwd.t), fwd.h,
                             dmask, strict))
    /\ UNCHANGED <<attrs, training, api>>

\* Line 195: return {'loss': loss, 'logps': logps}.
ForwardReturn ==
    /\ pc = "forward"
    /\ fwd.t >= LoopSteps(Len(fwd.y))
    /\ fwd' = [fwd EXCEPT !.status = "returned"]
    /\ pc' = "idle"
    /\ UNCHANGED <<attrs, training, api, last>>

\* ---------------------------------------------------------- specification
Next ==
    \/ \E rt \in RnnTypeArgs, di \in DecInitArgs, o \in Options :
            Construct(rt, di, o[4], o[1], o[2], o[3], o[5])
    \/ \E mode \in BOOLEAN : SetTraining(mode)
    \/ /\ pc = "idle"
       /\ \E name \in BundleNames, dmask \in DropMasks : CallFInit(name, dmask)
    \/ /\ pc = "idle"
       /\ \E name \in BundleNames, dmask \in DropMasks, strict \in BOOLEAN :
            CallFNext(name, dmask, strict)
    \/ /\ pc = "idle"
       /\ \E name \in BundleNames, s \in TargetSeqs, dmask \in DropMasks :
            ForwardBegin(name, s, dmask)
    \/ /\ pc = "forward"
       /\ \E dmask \in DropMasks, strict \in BOOLEAN : ForwardStep(dmask, strict)
    \/ ForwardReturn

Spec == Init /\ [][Next]_vars

\* ====================================================================
\* Properties
\* ====================================================================
Constructed == pc \in {"idle", "forward"}

InForward == fwd.status \in {"running", "returned"}

FwdT == Len(fwd.y)

WellShaped(name) == SizeLast(Bundle(name)[1]) = ctx_size

\* C1: a forward call on a well-shaped context bundle and a target sequence
\* of length T >= 1 that has ended has invoked f_init exactly once, first,
\* and then f_next exactly T - 1 times, for t = 0 .. T - 2 in that order,
\* step t with the embedding of y[t] and the handle returned by step t - 1
\* (by f_init for t = 0); y[T - 1] is never fed to a step.
C1_DriverCallSequence ==
    (fwd.status \in {"returned", "raised"} /\ WellShaped(fwd.bundle)) =>
        /\ Len(fwd.calls) = FwdT
        /\ fwd.calls[1].call = "f_init"
        /\ \A k \in 2..Len(fwd.calls) :
            /\ fwd.calls[k].call = "f_next"
            /\ fwd.calls[k].t = k - 2
            /\ fwd.calls[k].y = Embedding(fwd.y[k - 1])
            /\ fwd.calls[k].h_in =
                 (IF k = 2 THEN fwd.calls[1].out ELSE fwd.calls[k - 1].h_out)

\* The summed negative log-likelihood, under the distributions the steps of
\* the frame returned, of the targets that are not the padding sentinel 0.
ExpectedLoss ==
    SumSeq([k \in 1..(Len(fwd.calls) - 1) |->
        SumSeq([b \in 1..Len(fwd.y[k + 1]) |->
            IF fwd.y[k + 1][b] = 0 THEN 0
            ELSE 0 - fwd.calls[k + 1].log_p.v[b][fwd.y[k + 1][b] + 1]])])

\* C2: the loss of a forward call (accumulated so far, and as returned) is
\* the sum over the steps t made and over batch positions of the negative
\* log-probability step t's distribution gives y[t+1], positions whose
\* target is the padding sentinel 0 contributing nothing; in training mode
\* and outside it alike.
C2_LossIsMaskedNLLSum ==
    InForward =>
        /\ fwd.loss = ExpectedLoss
        /\ fwd.status = "returned" => Len(fwd.calls) = FwdT

C2_Witness ==
    /\ fwd.status = "returned"
    /\ FwdT = 3
    /\ training = FALSE
    /\ fwd.loss > 0
    /\ \E k \in 2..FwdT : \E b \in 1..Len(fwd.y[k]) : fwd.y[k][b] = 0
    /\ \E k \in 2..FwdT : \E b \in 1..Len(fwd.y[k]) : fwd.y[k][b] # 0

ZeroRow(B) == [b \in 1..B |-> [k \in 1..n_vocab |-> 0]]

\* C3: outside training mode the buffer of a forward call has exactly T - 1
\* rows; row t holds the distribution step t returned, written exactly once,
\* for every step made (all of 0 .. T - 2 when the call returns), and the
\* rows of the steps not yet made are untouched; in training mode there is
\* no buffer and nothing is written.
C3_LogpsBuffer ==
    InForward =>
        IF training
        THEN /\ IsNone(fwd.logps)
             /\ \A t \in 1..(FwdT - 1) : fwd.writes[t] = 0
        ELSE /\ IsTensor(fwd.logps)
             /\ Len(fwd.logps.v) = FwdT - 1
             /\ fwd.status = "returned" => fwd.t = FwdT - 1
             /\ \A t \in 1..(FwdT - 1) :
                  IF t <= fwd.t
                  THEN /\ fwd.logps.v[t] = fwd.calls[t + 1].log_p.v
                       /\ fwd.logps.v[t] # ZeroRow(Len(fwd.y[1]))
                       /\ fwd.writes[t] = 1
                  ELSE /\ fwd.logps.v[t] = ZeroRow(Len(fwd.y[1]))
                       /\ fwd.writes[t] = 0

C3_Witness ==
    /\ fwd.status = "returned"
    /\ training = FALSE
    /\ FwdT = 3
    /\ fwd.logps.v[1] # fwd.logps.v[2]

\* Sample handles of the decoder's width: every batch-1 handle over {0, 1},
\* and every batch-2 handle whose second row complements the first.
SampleHandles ==
    LET W == hidden_size * n_states
        Rows == [1..W -> {0, 1}]
    IN  {Tensor(2, <<r>>) : r \in Rows}
          \cup {Tensor(2, <<r, [j \in 1..W |-> 1 - r[j]]>>) : r \in Rows}

Columns(h, lo, hi) ==
    Tensor(2, [b \in 1..Size0(h) |-> SubSeq(h.v[b], lo, hi)])

RoundTripOf(h, u) ==
    /\ _rnn_pack_states(u) = h
    /\ rnn_type = GRU => u = h
    /\ rnn_type = LSTM =>
         /\ IsTuple(u)
         /\ Len(u.items) = 2
         /\ u.items[1] = Columns(h, 1, hidden_size)
         /\ u.items[2] = Columns(h, hidden_size + 1, 2 * hidden_size)

RoundTrip(h) == RoundTripOf(h, _rnn_unpack_states(h))

C4_State ==
    /\ (Constructed /\ last.call = "__init__") =>
          \A h \in SampleHandles : RoundTrip(h)
    /\ last.call = "f_next" =>
          /\ RoundTrip(last.res.h_in)
          /\ _rnn_pack_states(last.res.unpacked) = last.res.h_in

\* C4: pack(unpack(h)) = h for every valid handle h: for the LSTM variant
\* unpack splits h into the columns 1..hidden_size (primary) and
\* hidden_size+1..2*hidden_size (secondary) and pack concatenates them in
\* that order, for the GRU variant both are the identity; and the variant
\* chosen at construction never changes afterwards.
C4_CodecRoundTrip ==
    /\ []C4_State
    /\ [][Constructed => (rnn_type' = rnn_type /\ n_states' = n_states)]_vars

C4_Witness ==
    /\ last.call = "f_next"
    /\ rnn_type = LSTM
    /\ last.res.unpacked.items[1] # last.res.unpacked.items[2]

\* The form of state a cell variant accepts: a B x hidden_size tensor for
\* the GRU cell, a pair of them for the LSTM cell.
CellAccepts(cs) ==
    IF rnn_type = GRU
    THEN IsTensor(cs) /\ SizeLast(cs) = hidden_size
    ELSE /\ IsTuple(cs)
         /\ Len(cs.items) = 2
         /\ \A i \in 1..2 : SizeLast(cs.items[i]) = hidden_size

\* C5: every handle (of f_init under both strategies, of every f_next, for
\* both cell variants) has width hidden_size * n_states, n_states being 1
\* for GRU and 2 for LSTM, and the state a step gives the recurrent cell is
\* in the form that cell variant accepts.
C5_HandleWidth ==
    /\ Constructed => n_states = (IF rnn_type = GRU THEN 1 ELSE 2)
    /\ (last.call = "f_init" /\ last.ok) =>
          SizeLast(last.out) = hidden_size * n_states
    /\ last.call = "f_next" =>
          /\ SizeLast(last.res.h_in) = hidden_size * n_states
          /\ last.res.ok => SizeLast(last.res.h) = hidden_size * n_states
          /\ "cell_state" \in DOMAIN last.res => CellAccepts(last.res.cell_state)

\* C6: a constructor call whose rnn_type (case-normalised) is not GRU or
\* LSTM, or whose dec_init is not zero or mean_ctx, fails at construction
\* and yields no decoder; a decoder that exists has exactly the variant and
\* strategy asked for, so no call on it meets an unknown one.
C6_ConfigErrorsFailConstruction ==
    /\ last.call = "__init__" =>
          /\ last.ok <=> (/\ Upper(last.rnn_type_arg) \in {GRU, LSTM}
                          /\ last.dec_init_arg \in {"zero", "mean_ctx"})
          /\ last.ok <=> pc = "idle"
          /\ ~last.ok <=> pc = "ctor_failed"
          /\ last.ok => /\ rnn_type = Upper(last.rnn_type_arg)
                        /\ dec_init = last.dec_init_arg
    /\ Constructed => /\ rnn_type \in {GRU, LSTM}
                      /\ dec_init \in {"zero", "mean_ctx"}
    /\ pc = "ctor_failed" => (last.call = "__init__" /\ api = NoSession /\ fwd = NoFrame)

C6_Witness ==
    /\ pc = "ctor_failed"
    /\ last.rnn_type_arg = <<"r", "n", "n">>
    /\ last.dec_init_arg = "zero"

\* C7: an f_init or f_next call whose context bundle has a feature width
\* other than ctx_size, or an f_next call whose handle has a batch other
\* than that of the annotations, raises.
C7_ShapeErrorsRaise ==
    /\ (last.call = "f_init" /\ ~WellShaped(last.bundle)) => ~last.ok
    /\ (/\ last.call = "f_next"
        /\ \/ ~WellShaped(last.bundle)
           \/ Size0(last.res.h_in) # BatchOf(last.bundle)) => ~last.res.ok

C8_Holds(r, ref) ==
    /\ ~selector =>
          /\ r.ok = ref.ok
          /\ r.ok => /\ r.log_p = ref.log_p
                     /\ r.h = ref.h
                     /\ r.z_cell = r.z_att
                     /\ r.z_out = r.z_att
    /\ (selector /\ r.ok) =>
          /\ r.z_cell = GateMul(r.z_att, ff_selector(r.htm1))
          /\ r.z_out = r.z_cell

\* C8: with the selector off a step feeds the ungated attended context to
\* the cell and to the ctx2out shortcut, and its distribution and new handle
\* are those of the selector-on step with the gate forced to 1 on the same
\* handle, embedding and bundle; with the selector on, the cell and the
\* shortcut get the same gated context.
C8_SelectorOffIsGateOne ==
    last.call = "f_next" =>
        C8_Holds(last.res,
                 f_next_sel(TRUE, TRUE, last.bundle, last.res.y, last.res.h_in,
                            last.res.dmask, last.res.strict))

C8_Witness ==
    /\ last.call = "f_next"
    /\ ~selector /\ ctx2out
    /\ last.res.ok
    /\ Size0(last.res.z_cell) = 2
    /\ \E b \in 1..2 : \E c \in 1..ctx_size : last.res.z_cell.v[b][c] # 0

ExpectedLogit(r, proj) ==
    Tensor(2, [b \in 1..Size0(r.hid) |-> [j \in 1..input_size |->
        r.hid.v[b][j]
          + (IF prev2out THEN BRow(r.y, b)[j] ELSE 0)
          + (IF ctx2out THEN BRow(proj, b)[j] ELSE 0)]])

C9_Holds(r) ==
    /\ r.hid = hid2out(IF dropout > 0 THEN Dropout(r.ht, r.dmask) ELSE r.ht)
    /\ r.ht = get_rnn_hidden_state(r.ht_ct)
    /\ \A b \in 1..Size0(r.hid) : \A j \in 1..input_size :
          r.hid.v[b][j] \in -1..1
    /\ r.logit = ExpectedLogit(r, ff_out_ctx(r.z_out))
    /\ (~prev2out /\ ~ctx2out) => r.logit = r.hid

\* C9: the logit of a step is the tanh-activated projection of the new
\* primary state, plus y exactly when prev2out is on, plus the linear
\* projection of the attended context exactly when ctx2out is on; with
\* both off it is the projection alone.
C9_LogitShortcuts ==
    (last.call = "f_next" /\ last.res.ok) => C9_Holds(last.res)

C9_Witness ==
    /\ last.call = "f_next"
    /\ last.res.ok
    /\ ~prev2out /\ ~ctx2out
    /\ last.res.logit = last.res.hid
    /\ \E b \in 1..Size0(last.res.y) : \E j \in 1..input_size :
          last.res.y.v[b][j] # 0

\* C10: in a decoder built with tied_emb on, out2prob.weight and emb.weight
\* are one object from construction on and after every call; with tied_emb
\* off they are two objects.
C10_TiedWeights ==
    Constructed =>
        /\ emb_weight = "emb.weight"
        /\ tied_emb => out2prob_weight = emb_weight
        /\ ~tied_emb => out2prob_weight # emb_weight

C10_Witness ==
    /\ last.call = "f_next"
    /\ last.res.ok
    /\ tied_emb
    /\ out2prob_weight = emb_weight
====
